---- MODULE Spec2Model ----
(***************************************************************************)
(* Model of gridsync's main window (gridsync/gui/main_window.py): the      *)
(* gateway registry and combo box, the stacked central widget with its     *)
(* per-gateway Folders/History/Storage-time views, the toolbar enablement, *)
(* the news-message queue and the quit confirmation; and of the preference *)
(* store (gridsync/preferences.py).                                        *)
(*                                                                         *)
(* Python values are encoded as follows.  An optional value is a sequence: *)
(* None is <<>> and the value v is <<v>>.  A combo box index is 0-based as *)
(* in Qt; item i of the combo box is items[i + 1].  The handlers of the    *)
(* window are operators over a record w holding the window's fields, so    *)
(* that a handler that calls other handlers is the composition of their    *)
(* operators; an action applies one handler to the current state.          *)
(***************************************************************************)
EXTENDS Integers, Sequences, FiniteSets, TLC

VARIABLES
    gateways,               \* MainWindow.gateways
    items,                  \* ComboBox: item data, in item order
    currentIndex,           \* ComboBox: QComboBox.currentIndex()
    current_index,          \* ComboBox.current_index
    views,                  \* CentralWidget.views (gateway of each View)
    folders_views,          \* CentralWidget.folders_views (its keys)
    history_views,          \* CentralWidget.history_views (its keys)
    zkap_views,             \* CentralWidget.zkap_views (its keys)
    currentWidget,          \* CentralWidget.currentWidget(): <<gateway, kind>>
    enabled,                \* isEnabled() of the toolbar controls
    checked,                \* isChecked() of the three view buttons
    windowTitle,            \* MainWindow.windowTitle()
    connections,            \* newscap_checker signal connections per gateway
    last_error,             \* exception that left the last handler, if any
    grid_invites_enabled,   \* MainWindow.grid_invites_enabled
    invites_enabled,        \* MainWindow.invites_enabled
    multiple_grids_enabled, \* MainWindow.multiple_grids_enabled
    zkap_auth_required,     \* gateway.zkap_auth_required
    zkaps_remaining,        \* gateway.monitor.zkap_checker.zkaps_remaining
    magic_folders,          \* gateway.magic_folders (its keys)
    rows,                   \* view.model(): the rows of each gateway's View
    pending_news_message,   \* MainWindow.pending_news_message
    unread_messages,        \* gui.unread_messages
    visible,                \* MainWindow.isVisible()
    timers,                 \* QTimer.singleShot(0, ...) calls not yet run
    msgboxes,               \* number of message boxes shown, per message
    systray_updates,        \* gui.systray.update() calls of the last news handler
    enqueued,               \* number of arrivals, per message
    last_enqueued,          \* the most recent arrival
    quit_message,           \* the text confirm_quit chose last
    quit_answer,            \* what msg.exec_() returned last in confirm_quit
    question_open,          \* confirm_quit is waiting in msg.exec_()
    reactor_running,        \* reactor.stop() has not been called
    systray_visible,        \* gui.systray is shown
    systray_available,      \* gui.systray.isSystemTrayAvailable()
    platform,               \* sys.platform
    last_op,                \* history: the gateway selection made last
    last_view,              \* history: the view each gateway showed last
    config_files,           \* the preference files on disk, by path
    pref_call,              \* history: the last preference call, its result
    last_set                \* history: the value last set for each key

winvars == <<gateways, items, currentIndex, current_index, views,
             folders_views, history_views, zkap_views, currentWidget,
             enabled, checked, windowTitle, connections,
             last_error>>
flagvars == <<grid_invites_enabled, invites_enabled, multiple_grids_enabled>>
gwvars == <<zkap_auth_required, zkaps_remaining, magic_folders>>
newsvars == <<pending_news_message, unread_messages, visible, timers,
              msgboxes, systray_updates, enqueued, last_enqueued>>
quitvars == <<quit_message, quit_answer, question_open, reactor_running,
              systray_visible,
              systray_available, platform>>
prefvars == <<config_files, pref_call, last_set>>
vars == <<winvars, flagvars, gwvars, rows, newsvars, quitvars, last_op,
          last_view, prefvars>>

----------------------------------------------------------------------------
(* Bounds and value sets                                                   *)

\* The gateways that exist (gateway objects, compared by identity).
Gateways == {"A", "B"}

\* Largest value of zkaps_remaining.
MaxZkaps == 1

\* Total number of rows over all Views.
MaxRows == 2

\* Number of news messages that arrive in one run.
MaxMessages == 3

None == <<>>
Some(v) == <<v>>

\* Python truth of an optional integer: None and 0 are false.
Truthy(o) == o # None /\ o[1] # 0

APP_NAME == "Gridsync"
SEPARATOR == "separator"
ADD_NEW == "Add new..."

Kinds == {"Folders", "History", "Quota"}

----------------------------------------------------------------------------
(* The window as a record, for the handlers                                *)

Win == [gateways |-> gateways, items |-> items,
        currentIndex |-> currentIndex, current_index |-> current_index,
        views |-> views, folders_views |-> folders_views,
        history_views |-> history_views, zkap_views |-> zkap_views,
        currentWidget |-> currentWidget, enabled |-> enabled,
        checked |-> checked, windowTitle |-> windowTitle,
        connections |-> connections,
        last_error |-> "none"]

SetWin(w) ==
    /\ gateways' = w.gateways
    /\ items' = w.items
    /\ currentIndex' = w.currentIndex
    /\ current_index' = w.current_index
    /\ views' = w.views
    /\ folders_views' = w.folders_views
    /\ history_views' = w.history_views
    /\ zkap_views' = w.zkap_views
    /\ currentWidget' = w.currentWidget
    /\ enabled' = w.enabled
    /\ checked' = w.checked
    /\ windowTitle' = w.windowTitle
    /\ connections' = w.connections
    /\ last_error' = w.last_error

\* QComboBox.count()
count(w) == Len(w.items)

\* QComboBox.itemData(i): the gateway of a gateway item, None otherwise.
itemData(w, i) ==
    IF i >= 0 /\ i < count(w) /\ w.items[i + 1] \in Gateways
    THEN Some(w.items[i + 1])
    ELSE None

\* QComboBox.currentData()
currentData(w) == itemData(w, w.currentIndex)

----------------------------------------------------------------------------
(* MainWindow.maybe_enable_actions                                         *)

\* The invite control that exists: invites_button, invite_action or none.
InviteControl ==
    IF grid_invites_enabled THEN "invites_button"
    ELSE IF invites_enabled THEN "invite_action"
    ELSE "none"

\* SetAllEnabled with a slip: the enabling branch leaves out history_button.
SetAllEnabled_skips_history(e, b) ==
    [e EXCEPT !.folder_button = b, !.combo_box = b,
              !.history_button = IF b THEN @ ELSE b,
              !.recovery_button = b, !.folders_button = b,
              !.zkaps_button = b,
              !.invites_button =
                  IF InviteControl = "invites_button" THEN b ELSE @,
              !.invite_action =
                  IF InviteControl = "invite_action" THEN b ELSE @]

\* SetAllEnabled with a slip: the disabling branch leaves out combo_box.
SetAllEnabled_skips_combo_box(e, b) ==
    [e EXCEPT !.folder_button = b, !.combo_box = IF b THEN b ELSE @,
              !.history_button = b,
              !.recovery_button = b, !.folders_button = b,
              !.zkaps_button = b,
              !.invites_button =
                  IF InviteControl = "invites_button" THEN b ELSE @,
              !.invite_action =
                  IF InviteControl = "invite_action" THEN b ELSE @]

\* setEnabled(b) on every control that maybe_enable_actions touches.
SetAllEnabled(e, b) ==
    [e EXCEPT !.folder_button = b, !.combo_box = b, !.history_button = b,
              !.recovery_button = b, !.folders_button = b,
              !.zkaps_button = b,
              !.invites_button =
                  IF InviteControl = "invites_button" THEN b ELSE @,
              !.invite_action =
                  IF InviteControl = "invite_action" THEN b ELSE @]

\* The gateway requires ZKAPs and has none left.
OutOfZkaps(g) == zkap_auth_required[g] /\ ~Truthy(zkaps_remaining[g])

\* maybe_enable_actions with a slip: the Quota view is shown but the History
\* and Folders buttons are not unchecked.
maybe_enable_actions_keeps_checks(w) ==
    LET cd == currentData(w) IN
    IF cd = None
    THEN [w EXCEPT !.last_error = "AttributeError"]
    ELSE LET g == cd[1] IN
         IF OutOfZkaps(g)
         THEN LET w1 == [w EXCEPT !.enabled = SetAllEnabled(@, FALSE)] IN
              IF magic_folders[g] = {}
              THEN IF g \notin w1.zkap_views
                   THEN w1
                   ELSE [w1 EXCEPT !.currentWidget = <<g, "Quota">>,
                                   !.checked.zkaps_button = TRUE]
              ELSE w1
         ELSE [w EXCEPT !.enabled = SetAllEnabled(@, TRUE)]

\* maybe_enable_actions with a slip: the Quota view is forced whether or not
\* the gateway has folders.
maybe_enable_actions_always_quota(w) ==
    LET cd == currentData(w) IN
    IF cd = None
    THEN [w EXCEPT !.last_error = "AttributeError"]
    ELSE LET g == cd[1] IN
         IF OutOfZkaps(g)
         THEN LET w1 == [w EXCEPT !.enabled = SetAllEnabled(@, FALSE)] IN
              IF g \notin w1.zkap_views
              THEN w1
              ELSE [w1 EXCEPT !.currentWidget = <<g, "Quota">>,
                              !.checked = [zkaps_button |-> TRUE,
                                           history_button |-> FALSE,
                                           folders_button |-> FALSE]]
         ELSE [w EXCEPT !.enabled = SetAllEnabled(@, TRUE)]

maybe_enable_actions(w) ==
    LET cd == currentData(w) IN
    IF cd = None
    THEN [w EXCEPT !.last_error = "AttributeError"]
    ELSE LET g == cd[1] IN
         IF OutOfZkaps(g)
         THEN LET w1 == [w EXCEPT !.enabled = SetAllEnabled(@, FALSE)] IN
              IF magic_folders[g] = {}
              THEN IF g \notin w1.zkap_views
                   THEN w1
                   ELSE [w1 EXCEPT !.currentWidget = <<g, "Quota">>,
                                   !.checked = [zkaps_button |-> TRUE,
                                                history_button |-> FALSE,
                                                folders_button |-> FALSE]]
              ELSE w1
         ELSE [w EXCEPT !.enabled = SetAllEnabled(@, TRUE)]

----------------------------------------------------------------------------
(* View selection                                                          *)

\* MainWindow.current_view(): whether it returns a View.
current_view(w) ==
    LET cd == currentData(w) IN cd # None /\ cd[1] \in w.folders_views

set_current_grid_status(w) ==
    IF ~current_view(w) THEN w ELSE maybe_enable_actions(w)

\* show_folders_view with a slip: the Folders panel added first is raised,
\* whichever gateway is current.
show_folders_view_first_gateway(w) ==
    LET cd == currentData(w) IN
    IF cd = None \/ cd[1] \notin w.folders_views
    THEN w
    ELSE set_current_grid_status(
             [w EXCEPT !.currentWidget = <<w.views[1], "Folders">>,
                       !.checked = [folders_button |-> TRUE,
                                    zkaps_button |-> FALSE,
                                    history_button |-> FALSE]])

show_folders_view(w) ==
    LET cd == currentData(w) IN
    IF cd = None \/ cd[1] \notin w.folders_views
    THEN w
    ELSE set_current_grid_status(
             [w EXCEPT !.currentWidget = <<cd[1], "Folders">>,
                       !.checked = [folders_button |-> TRUE,
                                    zkaps_button |-> FALSE,
                                    history_button |-> FALSE]])

show_history_view_checks_first(w) ==
    LET cd == currentData(w) IN
    IF cd = None \/ cd[1] \notin w.history_views
    THEN [w EXCEPT !.checked = [folders_button |-> FALSE,
                                zkaps_button |-> FALSE,
                                history_button |-> TRUE]]
    ELSE set_current_grid_status(
             [w EXCEPT !.currentWidget = <<cd[1], "History">>,
                       !.checked = [folders_button |-> FALSE,
                                    zkaps_button |-> FALSE,
                                    history_button |-> TRUE]])

show_history_view(w) ==
    LET cd == currentData(w) IN
    IF cd = None \/ cd[1] \notin w.history_views
    THEN w
    ELSE set_current_grid_status(
             [w EXCEPT !.currentWidget = <<cd[1], "History">>,
                       !.checked = [folders_button |-> FALSE,
                                    zkaps_button |-> FALSE,
                                    history_button |-> TRUE]])

show_zkap_view_keeps_history_checked(w) ==
    LET cd == currentData(w) IN
    IF cd = None \/ cd[1] \notin w.zkap_views
    THEN w
    ELSE set_current_grid_status(
             [w EXCEPT !.currentWidget = <<cd[1], "Quota">>,
                       !.checked = [folders_button |-> FALSE,
                                    zkaps_button |-> TRUE,
                                    history_button |-> @.history_button]])

show_zkap_view(w) ==
    LET cd == currentData(w) IN
    IF cd = None \/ cd[1] \notin w.zkap_views
    THEN w
    ELSE set_current_grid_status(
             [w EXCEPT !.currentWidget = <<cd[1], "Quota">>,
                       !.checked = [folders_button |-> FALSE,
                                    zkaps_button |-> TRUE,
                                    history_button |-> FALSE]])

\* MainWindow.show_welcome_dialog opens a WelcomeDialog and changes nothing
\* that the handlers below read.
show_welcome_dialog(w) == w

----------------------------------------------------------------------------
(* Gateway selection                                                       *)

\* The end of on_grid_selected: the window title names the gateway when
\* several grids are allowed.
set_window_title_always(w) ==
    [w EXCEPT !.windowTitle = <<APP_NAME, currentData(w)[1]>>]

set_window_title(w) ==
    IF multiple_grids_enabled
    THEN [w EXCEPT !.windowTitle = <<APP_NAME, currentData(w)[1]>>]
    ELSE w

\* on_grid_selected with a slip: it returns when there is a current gateway
\* instead of when there is none.
on_grid_selected_returns(w, index) ==
    LET w1 == IF index = count(w) - 1 THEN show_welcome_dialog(w) ELSE w
    IN  IF currentData(w1) # None
        THEN w1
        ELSE IF w1.checked.history_button
             THEN show_history_view(w1)
             ELSE show_folders_view(w1)

on_grid_selected(w, index) ==
    LET w1 == IF index = count(w) - 1 THEN show_welcome_dialog(w) ELSE w
    IN  IF currentData(w1) = None
        THEN w1
        ELSE set_window_title(IF w1.checked.history_button
                              THEN show_history_view(w1)
                              ELSE show_folders_view(w1))

\* QComboBox.setCurrentIndex(i): currentIndexChanged is connected to
\* on_grid_selected and is emitted only when the index changes.
setCurrentIndex(w, i) ==
    IF i = w.currentIndex THEN w
    ELSE on_grid_selected([w EXCEPT !.currentIndex = i], i)

\* The end of on_activated: gateway.name is read for the log, then
\* maybe_enable_actions runs.
log_and_enable(w) ==
    IF currentData(w) = None
    THEN [w EXCEPT !.last_error = "AttributeError"]
    ELSE maybe_enable_actions(w)

\* ComboBox.on_activated
on_activated(w, index) ==
    log_and_enable(IF index = count(w) - 1
                   THEN setCurrentIndex(w, w.current_index)
                   ELSE [w EXCEPT !.current_index = index])

----------------------------------------------------------------------------
(* Registration of gateways                                                *)

\* QStackedWidget.addWidget: the first widget added becomes the current one.
addWidget(w, g, kind) ==
    IF w.currentWidget = None
    THEN [w EXCEPT !.currentWidget = <<g, kind>>]
    ELSE w

add_folders_view_forgets_view(w, g) ==
    [addWidget(w, g, "Folders") EXCEPT !.folders_views = @ \cup {g}]

add_folders_view(w, g) ==
    [addWidget(w, g, "Folders") EXCEPT !.views = Append(@, g),
                                       !.folders_views = @ \cup {g}]

add_history_view(w, g) ==
    [addWidget(w, g, "History") EXCEPT !.history_views = @ \cup {g}]

add_zkap_view(w, g) ==
    [addWidget(w, g, "Quota") EXCEPT !.zkap_views = @ \cup {g}]

\* QComboBox.insertItem(0, ...): the current item moves one place down and
\* the combo box emits currentIndexChanged with its new index.
insertItem0(w, g) ==
    IF w.currentIndex >= 0
    THEN on_grid_selected([w EXCEPT !.items = <<g>> \o @,
                                    !.currentIndex = @ + 1],
                          w.currentIndex + 1)
    ELSE [w EXCEPT !.items = <<g>> \o @]

\* ComboBox.add_gateway
add_gateway(w, g) ==
    [setCurrentIndex(insertItem0(w, g), 0) EXCEPT !.current_index = 0]

populate_one_always_adds(w, g) ==
    [add_gateway(
         add_zkap_view(add_history_view(add_folders_view(w, g), g), g),
         g)
        EXCEPT !.gateways = Append(@, g), !.connections[g] = @ + 1]

\* The body of populate's loop for one gateway.
populate_one(w, g) ==
    IF g \in {w.gateways[i] : i \in DOMAIN w.gateways}
    THEN w
    ELSE [add_gateway(
              add_zkap_view(add_history_view(add_folders_view(w, g), g), g),
              g)
             EXCEPT !.gateways = Append(@, g), !.connections[g] = @ + 1]

RECURSIVE populate_loop(_, _, _)
populate_loop(w, gs, i) ==
    IF i > Len(gs) THEN w
    ELSE populate_loop(populate_one(w, gs[i]), gs, i + 1)

populate(w, gs) ==
    IF gs = <<>> THEN w
    ELSE maybe_enable_actions(populate_loop(w, gs, 1))

----------------------------------------------------------------------------
(* News messages                                                           *)

\* Message texts a gateway can send.
Bodies == {"m1"}

\* on_message_received: the (gateway, title, message) it passes on.
NewsMessage(g, body) == <<g, <<"New message from", g>>, <<body, "">>>>

\* on_upgrade_required: the (gateway, title, message) it passes on.
UpgradeMessage(g) ==
    <<g, <<"Upgrade required", "">>, <<"unsupported format", g>>>>

Messages ==
    {NewsMessage(g, b) : g \in Gateways, b \in Bodies}
        \cup {UpgradeMessage(g) : g \in Gateways}

News == [pending_news_message |-> pending_news_message,
         unread_messages |-> unread_messages,
         timers |-> timers, msgboxes |-> msgboxes,
         systray_updates |-> 0]

SetNews(n) ==
    /\ pending_news_message' = n.pending_news_message
    /\ unread_messages' = n.unread_messages
    /\ timers' = n.timers
    /\ msgboxes' = n.msgboxes
    /\ systray_updates' = n.systray_updates

\* list.remove(x) with a slip: every element equal to x is dropped.
RECURSIVE remove_every(_, _)
remove_every(list, x) ==
    IF list = <<>> THEN <<>>
    ELSE IF Head(list) = x THEN remove_every(Tail(list), x)
    ELSE <<Head(list)>> \o remove_every(Tail(list), x)

\* list.remove(x): drops the first element equal to x.
RECURSIVE remove(_, _)
remove(list, x) ==
    IF list = <<>> THEN <<>>
    ELSE IF Head(list) = x THEN Tail(list)
    ELSE <<Head(list)>> \o remove(Tail(list), x)

\* show_news_message with a slip: no systray.update() after the removal.
show_news_message_no_update(n, msg) ==
    IF \E i \in DOMAIN n.unread_messages : n.unread_messages[i] = msg
    THEN [n EXCEPT !.msgboxes[msg] = @ + 1,
                   !.unread_messages = remove(@, msg)]
    ELSE [n EXCEPT !.msgboxes[msg] = @ + 1]

\* MainWindow.show_news_message: the message box is shown; list.remove
\* raises ValueError when the tuple is not in the list and the method
\* returns before gui.systray.update().
show_news_message(n, msg) ==
    IF \E i \in DOMAIN n.unread_messages : n.unread_messages[i] = msg
    THEN [n EXCEPT !.msgboxes[msg] = @ + 1,
                   !.unread_messages = remove(@, msg),
                   !.systray_updates = @ + 1]
    ELSE [n EXCEPT !.msgboxes[msg] = @ + 1]

\* _maybe_show_news_message with a slip: a message already pending is kept.
maybe_show_news_message_keeps_first(n, msg) ==
    LET n1 == [n EXCEPT !.unread_messages = Append(@, msg),
                        !.systray_updates = @ + 1] IN
    IF visible
    THEN show_news_message(n1, msg)
    ELSE IF n1.pending_news_message # None THEN n1
    ELSE [n1 EXCEPT !.pending_news_message = Some(msg)]

maybe_show_news_message(n, msg) ==
    LET n1 == [n EXCEPT !.unread_messages = Append(@, msg),
                        !.systray_updates = @ + 1] IN
    IF visible
    THEN show_news_message(n1, msg)
    ELSE [n1 EXCEPT !.pending_news_message = Some(msg)]

\* showEvent with a slip: the pending message is scheduled and stays in
\* the slot.
showEvent_keeps_pending(n) ==
    IF n.pending_news_message # None
    THEN [n EXCEPT !.timers = Append(@, n.pending_news_message[1])]
    ELSE n

\* showEvent with a slip: the pending message is displayed at once.
showEvent_synchronous(n) ==
    IF n.pending_news_message # None
    THEN show_news_message([n EXCEPT !.pending_news_message = None],
                           n.pending_news_message[1])
    ELSE n

\* MainWindow.showEvent
showEvent(n) ==
    IF n.pending_news_message # None
    THEN [n EXCEPT !.pending_news_message = None,
                   !.timers = Append(@, n.pending_news_message[1])]
    ELSE n

----------------------------------------------------------------------------
(* Quit confirmation                                                       *)

Statuses == {None, Some(0), Some(1), Some(2)}
Mtimes == {None, Some(1)}
Rows == [status : Statuses, mtime : Mtimes]

\* "not status and not mtime"
IsLoading(row) == ~Truthy(row.status) /\ ~Truthy(row.mtime)
\* "status == 1"
IsSyncing(row) == row.status = Some(1)

\* The inner loop of confirm_quit over one model: what it sets before it
\* breaks or runs out of rows.
RECURSIVE scan_model(_, _)
scan_model(model, row) ==
    IF row > Len(model) THEN "nothing"
    ELSE IF IsLoading(model[row]) THEN "loading"
    ELSE IF IsSyncing(model[row]) THEN "syncing"
    ELSE scan_model(model, row + 1)

folder_loading(w) ==
    \E i \in DOMAIN w.views : scan_model(rows[w.views[i]], 1) = "loading"

folder_syncing_first_row(w) ==
    \E i \in DOMAIN w.views :
        /\ rows[w.views[i]] # <<>>
        /\ IsSyncing(rows[w.views[i]][1])

folder_syncing(w) ==
    \E i \in DOMAIN w.views : scan_model(rows[w.views[i]], 1) = "syncing"

\* The informative text confirm_quit chooses.
informative_text(w) ==
    IF folder_loading(w) THEN "Loading"
    ELSE IF folder_syncing(w) THEN "Syncing"
    ELSE "Idle"

----------------------------------------------------------------------------
(* The preference store (gridsync/preferences.py)                          *)

\* os.path.join(config_dir, "preferences.ini"), which is also the path of
\* _default_config_path, and one other file.
DefaultPath == "config_dir/preferences.ini"
OtherPath == "other.ini"
Paths == {DefaultPath, OtherPath}

\* The config_file argument of the module functions.
ConfigFileArgs == {None, Some(""), Some(DefaultPath), Some(OtherPath)}

\* The (section, option) pairs used: two share a section, two an option.
Keys ==
    {<<"features", "invites">>, <<"features", "multiple_grids">>,
     <<"ui", "invites">>}

Values == {"true", "false"}

\* The outcome of a call: a returned value or the NotFound failure.
Returned(v) == <<"returned", v>>
NotFound == <<"NotFound">>

\* An INI file: its sections, each a function from its options to values.
EmptyFile == [s \in {} |-> <<>>]

\* Config(filename).set: load the file, add or change the option, creating
\* the section if absent, and store the file.
Config_set(files, filename, section, option, value) ==
    LET file == files[filename]
        old == IF section \in DOMAIN file THEN file[section]
               ELSE [o \in {} |-> ""]
        new == [o \in DOMAIN old \cup {option} |->
                    IF o = option THEN value ELSE old[o]]
    IN  [files EXCEPT ![filename] =
            [s \in DOMAIN file \cup {section} |->
                IF s = section THEN new ELSE file[s]]]

\* Config(filename).get: load the file and look the option up.
Config_get(files, filename, section, option) ==
    LET file == files[filename]
    IN  IF section \in DOMAIN file /\ option \in DOMAIN file[section]
        THEN Returned(file[section][option])
        ELSE NotFound

\* Python truth of the config_file argument: None and "" are false.
Falsy(config_file) == config_file = None \/ config_file[1] = ""

set_preference_default_file(files, section, option, value, config_file) ==
    Config_set(files, DefaultPath, section, option, value)

\* set_preference(section, option, value, config_file): the files after it.
set_preference(files, section, option, value, config_file) ==
    Config_set(files,
               IF Falsy(config_file) THEN DefaultPath ELSE config_file[1],
               section, option, value)

get_preference_default_file(files, section, option, config_file) ==
    Config_get(files, DefaultPath, section, option)

\* get_preference(section, option, config_file): its outcome.
get_preference(files, section, option, config_file) ==
    Config_get(files,
               IF Falsy(config_file) THEN DefaultPath ELSE config_file[1],
               section, option)

\* Preferences(config_file=FilePath(path)).set and .get
Preferences_set(path, files, section, option, value) ==
    set_preference(files, section, option, value, Some(path))

Preferences_get(path, files, section, option) ==
    get_preference(files, section, option, Some(path))

----------------------------------------------------------------------------
(* Initial state: the window as MainWindow.__init__ leaves it              *)

\* History of the last step: whether it selected a gateway in the combo box
\* (which one, and which was current before) or was a call of
\* maybe_enable_actions alone, and whether the handler ended by running
\* maybe_enable_actions.
NoOp == [op |-> "init", g |-> "", from |-> "", enablement |-> FALSE]
OtherOp(w) ==
    [op |-> "other", g |-> "", from |-> "",
     enablement |-> (w.last_error = "none" /\ currentData(w) # None)]
EnableOp(w) ==
    [op |-> "maybe_enable_actions", g |-> "", from |-> "",
     enablement |-> (w.last_error = "none" /\ currentData(w) # None)]
SelectOp(w, g, from) ==
    [op |-> "select", g |-> g, from |-> from,
     enablement |-> (w.last_error = "none" /\ currentData(w) # None)]
GatewayOp == [op |-> "other", g |-> "", from |-> "", enablement |-> FALSE]

\* The gateway in an optional value, "" for None.
NameOf(o) == IF o = None THEN "" ELSE o[1]

\* History of the last preference call: none yet.
NoCall == [op |-> "none", path |-> "", key |-> <<>>, outcome |-> <<>>]

\* What __init__ sets, given the feature flags read from the settings; no
\* preference file exists yet.
InitWindow ==
    /\ gateways = <<>>
    /\ items = <<SEPARATOR, ADD_NEW>>
    /\ currentIndex = 0
    /\ current_index = 0
    /\ views = <<>>
    /\ folders_views = {}
    /\ history_views = {}
    /\ zkap_views = {}
    /\ currentWidget = None
    /\ enabled = [folder_button |-> FALSE, combo_box |-> TRUE,
                  history_button |-> FALSE, recovery_button |-> TRUE,
                  folders_button |-> FALSE, zkaps_button |-> FALSE,
                  invites_button |-> (InviteControl = "invites_button"),
                  invite_action |-> (InviteControl = "invite_action")]
    /\ checked = [folders_button |-> FALSE, zkaps_button |-> FALSE,
                  history_button |-> FALSE]
    /\ windowTitle = <<APP_NAME>>
    /\ connections = [g \in Gateways |-> 0]
    /\ last_error = "none"
    /\ pending_news_message = None
    /\ unread_messages = <<>>
    /\ visible = FALSE
    /\ timers = <<>>
    /\ msgboxes = [m \in Messages |-> 0]
    /\ systray_updates = 0
    /\ enqueued = [m \in Messages |-> 0]
    /\ last_enqueued = None
    /\ quit_message = "none"
    /\ quit_answer = "none"
    /\ question_open = FALSE
    /\ reactor_running = TRUE
    /\ systray_visible = TRUE
    /\ last_op = NoOp
    /\ last_view = [g \in Gateways |-> "none"]
    /\ config_files = [p \in Paths |-> EmptyFile]
    /\ pref_call = NoCall
    /\ last_set = [p \in Paths |-> [k \in Keys |-> "unset"]]

\* The gateways before the window has seen them.
InitGateways ==
    /\ zkaps_remaining = [g \in Gateways |-> None]
    /\ magic_folders = [g \in Gateways |-> {}]
    /\ rows = [g \in Gateways |-> <<>>]

\* The "features" settings tried: <<grid_invites, invites, multiple_grids>>.
\* Each flag takes both values and each invite control occurs.
FeatureSettings ==
    {<<TRUE, TRUE, TRUE>>, <<FALSE, TRUE, FALSE>>, <<FALSE, FALSE, TRUE>>}

\* Any of these feature flags and any gateways; the system tray and the platform,
\* which the view coordinator does not read, are fixed.
Init ==
    /\ \E f \in FeatureSettings :
           /\ grid_invites_enabled = f[1]
           /\ invites_enabled = f[2]
           /\ multiple_grids_enabled = f[3]
    /\ zkap_auth_required \in [Gateways -> BOOLEAN]
    /\ systray_available = TRUE
    /\ platform = "linux"
    /\ InitGateways
    /\ InitWindow

----------------------------------------------------------------------------
(* Actions of the view coordinator                                         *)

\* History: the kind of view on display is recorded for the current gateway
\* whenever the window shows one of that gateway's own views.
Remember(w) ==
    last_view' =
        IF /\ currentData(w) # None
           /\ w.currentWidget # None
           /\ w.currentWidget[1] = currentData(w)[1]
        THEN [last_view EXCEPT ![currentData(w)[1]] = w.currentWidget[2]]
        ELSE last_view

\* The window a handler leaves behind, with the history of the step.
Handled(w) == SetWin(w) /\ Remember(w) /\ last_op' = OtherOp(w)

EnablementHandled(w) == SetWin(w) /\ Remember(w) /\ last_op' = EnableOp(w)

Selected(w, g, from) ==
    SetWin(w) /\ Remember(w) /\ last_op' = SelectOp(w, g, from)

\* A handler that returned without touching the window.
Untouched == SetWin(Win) /\ Remember(Win) /\ last_op' = GatewayOp

\* The lists populate is called with: the configured gateways in any order,
\* all or some of them.  A gateway listed again is one already populated,
\* which a second call of populate covers.
GatewayLists ==
    {gs \in UNION {[1 .. n -> Gateways] : n \in 0 .. Cardinality(Gateways)} :
        \A i, j \in DOMAIN gs : gs[i] = gs[j] => i = j}

\* MainWindow.populate(gateways)
Populate(gs) ==
    /\ reactor_running
    /\ IF gs = <<>> THEN Untouched ELSE Handled(populate(Win, gs))
    /\ UNCHANGED <<flagvars, prefvars, gwvars, rows, newsvars, quitvars>>

\* The user picks item index of the combo box: Qt makes it the current item,
\* which emits currentIndexChanged when it was not, and emits activated.
ComboActivated(index) ==
    /\ reactor_running
    /\ index \in 0 .. Len(items) - 1
    /\ items[index + 1] # SEPARATOR
    /\ Selected(on_activated(setCurrentIndex(Win, index), index),
                NameOf(itemData(Win, index)), NameOf(currentData(Win)))
    /\ UNCHANGED <<flagvars, prefvars, gwvars, rows, newsvars, quitvars>>

ShowFoldersView ==
    /\ reactor_running
    /\ Handled(show_folders_view(Win))
    /\ UNCHANGED <<flagvars, prefvars, gwvars, rows, newsvars, quitvars>>

ShowHistoryView ==
    /\ reactor_running
    /\ Handled(show_history_view(Win))
    /\ UNCHANGED <<flagvars, prefvars, gwvars, rows, newsvars, quitvars>>

ShowZkapView ==
    /\ reactor_running
    /\ Handled(show_zkap_view(Win))
    /\ UNCHANGED <<flagvars, prefvars, gwvars, rows, newsvars, quitvars>>

SetCurrentGridStatus ==
    /\ reactor_running
    /\ Handled(set_current_grid_status(Win))
    /\ UNCHANGED <<flagvars, prefvars, gwvars, rows, newsvars, quitvars>>

\* MainWindow.maybe_enable_actions(), called from outside the window.
MaybeEnableActions ==
    /\ reactor_running
    /\ EnablementHandled(maybe_enable_actions(Win))
    /\ UNCHANGED <<flagvars, prefvars, gwvars, rows, newsvars, quitvars>>

\* The gateway's ZKAP checker reports a new balance.
ZkapsChanged(g, n) ==
    /\ reactor_running
    /\ zkaps_remaining[g] # Some(n)
    /\ zkaps_remaining' = [zkaps_remaining EXCEPT ![g] = Some(n)]
    /\ last_op' = GatewayOp
    /\ UNCHANGED <<winvars, flagvars, prefvars,
                   zkap_auth_required, magic_folders,
                   rows, newsvars, quitvars, last_view>>

\* The gateway gains its first folder or loses its last one.
MagicFoldersChanged(g) ==
    /\ reactor_running
    /\ magic_folders' = [magic_folders EXCEPT
                            ![g] = IF @ = {} THEN {"folder"} ELSE {}]
    /\ last_op' = GatewayOp
    /\ UNCHANGED <<winvars, flagvars, prefvars,
                   zkap_auth_required, zkaps_remaining,
                   rows, newsvars, quitvars, last_view>>

Next ==
    \/ \E gs \in GatewayLists : Populate(gs)
    \/ \E index \in 0 .. Cardinality(Gateways) + 1 : ComboActivated(index)
    \/ ShowFoldersView
    \/ ShowHistoryView
    \/ ShowZkapView
    \/ SetCurrentGridStatus
    \/ MaybeEnableActions
    \/ \E g \in Gateways, n \in 0 .. MaxZkaps : ZkapsChanged(g, n)
    \/ \E g \in Gateways : MagicFoldersChanged(g)

Spec == Init /\ [][Next]_vars

----------------------------------------------------------------------------
(* Actions of the news queue and of quitting                               *)

Sum(f) ==
    LET RECURSIVE SumOver(_)
        SumOver(S) == IF S = {} THEN 0
                      ELSE LET x == CHOOSE y \in S : TRUE
                           IN  f[x] + SumOver(S \ {x})
    IN  SumOver(DOMAIN f)

\* A message arrives: the handler's call of _maybe_show_news_message.
Arrive(msg) ==
    /\ SetNews(maybe_show_news_message(News, msg))
    /\ enqueued' = [enqueued EXCEPT ![msg] = @ + 1]
    /\ last_enqueued' = Some(msg)
    /\ last_op' = GatewayOp
    /\ UNCHANGED <<winvars, flagvars, prefvars,
                   gwvars, rows, visible, quitvars,
                   last_view>>

\* MainWindow.on_message_received, connected by populate to the gateway's
\* message_received signal.
OnMessageReceived(g, body) ==
    /\ reactor_running
    /\ connections[g] > 0
    /\ Sum(enqueued) < MaxMessages
    /\ Arrive(NewsMessage(g, body))

\* MainWindow.on_upgrade_required, connected by populate to the gateway's
\* upgrade_required signal.
OnUpgradeRequired(g) ==
    /\ reactor_running
    /\ connections[g] > 0
    /\ Sum(enqueued) < MaxMessages
    /\ Arrive(UpgradeMessage(g))

\* The window is shown: MainWindow.showEvent.
ShowEvent ==
    /\ reactor_running
    /\ visible' = TRUE
    /\ SetNews(showEvent(News))
    /\ last_op' = GatewayOp
    /\ UNCHANGED <<winvars, flagvars, prefvars,
                   gwvars, rows, enqueued, last_enqueued,
                   quitvars, last_view>>

\* The event loop runs the oldest QTimer.singleShot(0, ...) callback.
TimerTick ==
    /\ reactor_running
    /\ timers # <<>>
    /\ SetNews(show_news_message([News EXCEPT !.timers = Tail(@)],
                                 Head(timers)))
    /\ last_op' = GatewayOp
    /\ UNCHANGED <<winvars, flagvars, prefvars,
                   gwvars, rows, visible, enqueued,
                   last_enqueued, quitvars, last_view>>

\* MainWindow.keyPressEvent for Escape with nothing selected in the view.
\* The question of confirm_quit is modal: while it is open the window gets
\* no key press, no close event and no shortcut.
KeyPressEscape ==
    /\ reactor_running
    /\ ~question_open
    /\ visible
    /\ visible' = IF systray_available THEN FALSE ELSE visible
    /\ last_op' = GatewayOp
    /\ UNCHANGED <<winvars, flagvars, prefvars,
                   gwvars, rows, pending_news_message,
                   unread_messages, timers, msgboxes, systray_updates,
                   enqueued,
                   last_enqueued, quitvars, last_view>>

\* MainWindow.confirm_quit up to msg.exec_(): the rows are scanned, the
\* text is chosen and the question is opened.  exec_() runs the event loop
\* until the question is answered.
confirm_quit ==
    /\ quit_message' = informative_text(Win)
    /\ question_open' = TRUE
    /\ UNCHANGED <<quit_answer, systray_visible, reactor_running>>

\* The end of confirm_quit with a slip: the system tray is not hidden on
\* win32.
confirm_quit_answered_never_hides(answer) ==
    /\ quit_answer' = answer
    /\ question_open' = FALSE
    /\ reactor_running' = (answer # "Yes")
    /\ UNCHANGED <<quit_message, systray_visible>>

\* MainWindow.confirm_quit from the return of msg.exec_() on.
confirm_quit_answered(answer) ==
    /\ quit_answer' = answer
    /\ question_open' = FALSE
    /\ IF answer = "Yes"
       THEN /\ systray_visible' =
                   IF platform = "win32" THEN FALSE ELSE systray_visible
            /\ reactor_running' = FALSE
       ELSE UNCHANGED <<systray_visible, reactor_running>>
    /\ UNCHANGED quit_message

\* MainWindow.confirm_quit, from the Quit shortcut: the question opens.
ConfirmQuit ==
    /\ reactor_running
    /\ ~question_open
    /\ confirm_quit
    /\ last_op' = GatewayOp
    /\ UNCHANGED <<winvars, flagvars, prefvars, gwvars, rows, newsvars,
                   systray_available, platform, last_view>>

\* The user answers the question of confirm_quit: msg.exec_() returns.
\* Whatever the event loop delivered while the question was open has been
\* handled by then.
QuitAnswered(answer) ==
    /\ reactor_running
    /\ question_open
    /\ confirm_quit_answered(answer)
    /\ last_op' = GatewayOp
    /\ UNCHANGED <<winvars, flagvars, prefvars, gwvars, rows, newsvars,
                   systray_available, platform, last_view>>

\* MainWindow.closeEvent: accepted, which hides the window, when there is a
\* system tray; otherwise ignored and followed by confirm_quit, which opens
\* the question.
CloseEvent ==
    /\ reactor_running
    /\ ~question_open
    /\ visible
    /\ IF systray_available
       THEN /\ visible' = FALSE
            /\ UNCHANGED <<quit_message, quit_answer, question_open,
                           systray_visible, reactor_running>>
       ELSE /\ confirm_quit
            /\ UNCHANGED visible
    /\ last_op' = GatewayOp
    /\ UNCHANGED <<winvars, flagvars, prefvars,
                   gwvars, rows, pending_news_message,
                   unread_messages, timers, msgboxes, systray_updates,
                   enqueued,
                   last_enqueued, systray_available, platform, last_view>>

\* Number of rows in all the models together.
TotalRows == Sum([g \in Gateways |-> Len(rows[g])])

\* A folder appears in the View that add_folders_view made for gateway g.
RowAdded(g, row) ==
    /\ reactor_running
    /\ g \in folders_views
    /\ TotalRows < MaxRows
    /\ rows' = [rows EXCEPT ![g] = Append(@, row)]
    /\ last_op' = GatewayOp
    /\ UNCHANGED <<winvars, flagvars, prefvars,
                   gwvars, newsvars, quitvars, last_view>>

\* The status or the last-modified time of a folder changes.
RowChanged(g, i, row) ==
    /\ reactor_running
    /\ i \in DOMAIN rows[g]
    /\ rows[g][i] # row
    /\ rows' = [rows EXCEPT ![g][i] = row]
    /\ last_op' = GatewayOp
    /\ UNCHANGED <<winvars, flagvars, prefvars,
                   gwvars, newsvars, quitvars, last_view>>

Answers == {"Yes", "No"}

\* The news queue: one feature setting, gateways that require no ZKAPs, with a
\* system tray, so that the window can be hidden.
InitNews ==
    /\ grid_invites_enabled = TRUE
    /\ invites_enabled = TRUE
    /\ multiple_grids_enabled = TRUE
    /\ zkap_auth_required = [g \in Gateways |-> FALSE]
    /\ systray_available = TRUE
    /\ platform = "linux"
    /\ InitGateways
    /\ InitWindow

NextNews ==
    \/ \E gs \in GatewayLists : Populate(gs)
    \/ \E g \in Gateways, body \in Bodies : OnMessageReceived(g, body)
    \/ \E g \in Gateways : OnUpgradeRequired(g)
    \/ ShowEvent
    \/ TimerTick
    \/ KeyPressEscape
    \/ CloseEvent

SpecNews == InitNews /\ [][NextNews]_vars

\* show_news_message is called from outside the window only while fewer than
\* this many message boxes have been opened.
MaxDisplayed == 1

\* Number of calls of on_message_received and on_upgrade_required made
\* from outside the window in one run.
MaxCalls == 2

\* MainWindow.on_message_received called with any gateway, registered or
\* not.
MessageReceivedCalled(g, body) ==
    /\ reactor_running
    /\ Sum(enqueued) < MaxCalls
    /\ Arrive(NewsMessage(g, body))

\* MainWindow.on_upgrade_required called with any gateway, registered or
\* not.
UpgradeRequiredCalled(g) ==
    /\ reactor_running
    /\ Sum(enqueued) < MaxCalls
    /\ Arrive(UpgradeMessage(g))

\* MainWindow.show_news_message called directly, with any message.
ShowNewsMessage(msg) ==
    /\ reactor_running
    /\ Sum(msgboxes) < MaxDisplayed
    /\ SetNews(show_news_message(News, msg))
    /\ last_op' = GatewayOp
    /\ UNCHANGED <<winvars, flagvars, prefvars,
                   gwvars, rows, visible, enqueued,
                   last_enqueued, quitvars, last_view>>

\* The news queue with its handlers called from outside the window as well
\* as by the signals that populate connects: a message is displayed that
\* is not in the unread list, a message arrives for a gateway that is not
\* registered.  With a system tray, without the events that hide the
\* window.
InitDisplay ==
    /\ grid_invites_enabled = TRUE
    /\ invites_enabled = TRUE
    /\ multiple_grids_enabled = TRUE
    /\ zkap_auth_required = [g \in Gateways |-> FALSE]
    /\ systray_available = TRUE
    /\ platform = "linux"
    /\ InitGateways
    /\ InitWindow

NextDisplay ==
    \/ \E gs \in GatewayLists : Populate(gs)
    \/ \E g \in Gateways, body \in Bodies : MessageReceivedCalled(g, body)
    \/ \E g \in Gateways : UpgradeRequiredCalled(g)
    \/ ShowEvent
    \/ TimerTick
    \/ \E msg \in Messages : ShowNewsMessage(msg)

SpecDisplay == InitDisplay /\ [][NextDisplay]_vars

\* Quitting: one feature setting, gateways that require no ZKAPs, no system
\* tray, on linux.
InitQuit ==
    /\ grid_invites_enabled = TRUE
    /\ invites_enabled = TRUE
    /\ multiple_grids_enabled = TRUE
    /\ zkap_auth_required = [g \in Gateways |-> FALSE]
    /\ systray_available = FALSE
    /\ platform = "linux"
    /\ InitGateways
    /\ InitWindow

NextQuit ==
    \/ \E gs \in GatewayLists : Populate(gs)
    \/ \E g \in Gateways, row \in Rows : RowAdded(g, row)
    \/ \E g \in Gateways, i \in 1 .. MaxRows, row \in Rows :
           RowChanged(g, i, row)
    \/ ConfirmQuit
    \/ \E answer \in Answers : QuitAnswered(answer)

SpecQuit == InitQuit /\ [][NextQuit]_vars

\* Closing and quitting: with and without a system tray, on either
\* platform, with upgrade messages as the notification state.
InitClose ==
    /\ grid_invites_enabled = TRUE
    /\ invites_enabled = TRUE
    /\ multiple_grids_enabled = TRUE
    /\ zkap_auth_required = [g \in Gateways |-> FALSE]
    /\ systray_available \in BOOLEAN
    /\ platform \in {"win32", "linux"}
    /\ InitGateways
    /\ InitWindow

NextClose ==
    \/ \E gs \in GatewayLists : Populate(gs)
    \/ \E g \in Gateways : OnUpgradeRequired(g)
    \/ ShowEvent
    \/ TimerTick
    \/ KeyPressEscape
    \/ CloseEvent
    \/ ConfirmQuit
    \/ \E answer \in Answers : QuitAnswered(answer)

SpecClose == InitClose /\ [][NextClose]_vars

\* The file a caller means by a config_file argument.
FileOf(config_file) ==
    IF config_file \in {None, Some("")} THEN DefaultPath ELSE config_file[1]

\* What a preference call leaves behind: the files and the histories.
Stored(files, path, key, value) ==
    /\ config_files' = files
    /\ pref_call' = [op |-> "set", path |-> path, key |-> key,
                     outcome |-> None]
    /\ last_set' = [last_set EXCEPT ![path][key] = value]
    /\ UNCHANGED <<winvars, flagvars, gwvars, rows, newsvars, quitvars,
                   last_op, last_view>>

Looked(outcome, path, key) ==
    /\ pref_call' = [op |-> "get", path |-> path, key |-> key,
                     outcome |-> outcome]
    /\ UNCHANGED <<winvars, flagvars, gwvars, rows, newsvars, quitvars,
                   last_op, last_view, config_files, last_set>>

\* set_preference(section, option, value, config_file)
SetPreference(key, value, config_file) ==
    Stored(set_preference(config_files, key[1], key[2], value, config_file),
           FileOf(config_file), key, value)

\* get_preference(section, option, config_file)
GetPreference(key, config_file) ==
    Looked(get_preference(config_files, key[1], key[2], config_file),
           FileOf(config_file), key)

\* Preferences(config_file).set(section, option, value)
PreferencesSet(path, key, value) ==
    Stored(Preferences_set(path, config_files, key[1], key[2], value),
           path, key, value)

\* Preferences(config_file).get(section, option)
PreferencesGet(path, key) ==
    Looked(Preferences_get(path, config_files, key[1], key[2]), path, key)

\* The preference store: calls through the module functions and through
\* Preferences instances of both files, in any order.
InitPrefs == InitNews

NextPrefs ==
    \/ \E k \in Keys, v \in Values, cf \in ConfigFileArgs :
           SetPreference(k, v, cf)
    \/ \E k \in Keys, cf \in ConfigFileArgs : GetPreference(k, cf)
    \/ \E p \in Paths, k \in Keys, v \in Values : PreferencesSet(p, k, v)
    \/ \E p \in Paths, k \in Keys : PreferencesGet(p, k)

SpecPrefs == InitPrefs /\ [][NextPrefs]_vars

----------------------------------------------------------------------------
(* Properties of the quit confirmation                                     *)

\* The rows of all registered gateways' Views.
AllRows ==
    UNION {{rows[views[i]][r] : r \in DOMAIN rows[views[i]]}
              : i \in DOMAIN views}

AnyLoading == \E row \in AllRows : IsLoading(row)
AnySyncing == \E row \in AllRows : IsSyncing(row)

\* The step in which confirm_quit scans the rows and opens its question.
QuitStep == ~question_open /\ question_open'

\* C1: when some folder is loading and some folder is syncing, in whatever
\* order the folders stand in their gateways, confirm_quit chooses the
\* loading warning.
C1_LoadingPriority ==
    [][(QuitStep /\ AnyLoading /\ AnySyncing)
          => quit_message' = "Loading"]_vars

\* C15: confirm_quit chooses the plain confirmation exactly when no folder
\* is loading and none is syncing, and the syncing warning whenever some
\* folder is syncing and none is loading.
C15_LowerClassesExact ==
    [][QuitStep
          => /\ quit_message' = "Idle" <=> (~AnyLoading /\ ~AnySyncing)
             /\ (AnySyncing /\ ~AnyLoading) => quit_message' = "Syncing"]_vars

\* The syncing warning was chosen with a syncing folder standing behind an
\* idle one in the second gateway's View, and the first gateway's View empty.
C15_Witness ==
    /\ question_open
    /\ quit_message = "Syncing"
    /\ Len(views) = 2
    /\ rows[views[1]] = <<>>
    /\ Len(rows[views[2]]) = 2
    /\ ~IsSyncing(rows[views[2]][1])
    /\ IsSyncing(rows[views[2]][2])
    /\ ~AnyLoading

----------------------------------------------------------------------------
(* Properties of the news queue                                            *)

\* list.count(x)
Count(list, x) == Cardinality({i \in DOMAIN list : list[i] = x})

\* C2: when the window is shown while a message is pending, showEvent
\* schedules the display of the message that arrived last, of no other, and
\* empties the slot.
C2_LatestWins ==
    [][(ShowEvent /\ pending_news_message # None)
          => /\ timers' = Append(timers, last_enqueued[1])
             /\ pending_news_message' = None
             /\ msgboxes' = msgboxes]_vars

C2_Witness ==
    \E m1 \in Messages : \E m2 \in Messages \ {m1} :
        /\ unread_messages = <<m1, m2>>
        /\ timers = <<m2>>
        /\ pending_news_message = None
        /\ visible
        /\ \A m \in Messages : msgboxes[m] = 0

\* C3: the unread list holds each message as many times as it has arrived
\* less the times it has been displayed, whatever became of the pending
\* slot.
C3_UnreadAccumulates ==
    \A m \in Messages :
        Count(unread_messages, m) = enqueued[m] - msgboxes[m]

C3_Witness ==
    \E m1 \in Messages : \E m2 \in Messages \ {m1} :
        \E m3 \in Messages \ {m1, m2} :
            /\ pending_news_message = Some(m2)
            /\ unread_messages = <<m1, m2>>
            /\ enqueued[m3] = 1
            /\ msgboxes[m3] = 1

----------------------------------------------------------------------------
(* Properties of the view coordinator                                      *)

\* The current gateway, as an optional value.
Current == currentData(Win)

\* Every control maybe_enable_actions governs is enabled; the invite control
\* counts when the window has one.
AllEnabled(e) ==
    /\ e.folder_button /\ e.combo_box /\ e.history_button
    /\ e.recovery_button /\ e.folders_button /\ e.zkaps_button
    /\ InviteControl = "invites_button" => e.invites_button
    /\ InviteControl = "invite_action" => e.invite_action

\* add-folder, invite, history, recovery, folders-panel and grid-selector
\* are disabled.
Restricted(e) ==
    /\ ~e.folder_button /\ ~e.combo_box /\ ~e.history_button
    /\ ~e.recovery_button /\ ~e.folders_button
    /\ ~e.invites_button /\ ~e.invite_action

\* The view of the given kind of gateway g is on display and its button is
\* the one checked.
Active(g, kind, widget, chk) ==
    /\ widget = <<g, kind>>
    /\ chk = [folders_button |-> kind = "Folders",
              zkaps_button |-> kind = "Quota",
              history_button |-> kind = "History"]

\* The last step was a handler that ended by running maybe_enable_actions
\* for the gateway that is current now; the gateways have not changed since.
EnablementRan == last_op.enablement

\* C4: after maybe_enable_actions has run for a current gateway that does
\* not require ZKAPs, every control is enabled, whatever zkaps_remaining is.
C4_AllEnabledWithoutAuth ==
    (EnablementRan /\ ~zkap_auth_required[Current[1]])
        => AllEnabled(enabled)

C4_Witness ==
    \E g \in Gateways :
        /\ Current = Some(g)
        /\ EnablementRan
        /\ ~zkap_auth_required[g]
        /\ zkaps_remaining[g] \in {None, Some(0)}
        /\ AllEnabled(enabled)

\* C5: after maybe_enable_actions has run for a current gateway that is out
\* of ZKAPs and has no magic folders, that gateway's Quota view is on display
\* and the Quota button is the one checked.
C5_QuotaForced ==
    (/\ EnablementRan
     /\ OutOfZkaps(Current[1])
     /\ magic_folders[Current[1]] = {})
        => Active(Current[1], "Quota", currentWidget, checked)

C5_Witness ==
    \E g \in Gateways :
        /\ Current = Some(g)
        /\ OutOfZkaps(g)
        /\ magic_folders[g] = {}
        /\ last_op.op = "other"
        /\ EnablementRan
        /\ checked.zkaps_button
        /\ currentWidget = <<g, "Quota">>

\* C6: after maybe_enable_actions has run for a current gateway that is out
\* of ZKAPs, add-folder, invite, history, recovery, folders-panel and the
\* grid selector are disabled, with or without folders.
C6_ControlsDisabled ==
    (EnablementRan /\ OutOfZkaps(Current[1])) => Restricted(enabled)

C6_Witness ==
    \E g \in Gateways :
        /\ Current = Some(g)
        /\ EnablementRan
        /\ OutOfZkaps(g)
        /\ magic_folders[g] # {}
        /\ Restricted(enabled)

\* C7: after maybe_enable_actions has run for a current gateway that is out
\* of ZKAPs, the quota-panel control is not disabled.
C7_QuotaPanelEnabled ==
    (EnablementRan /\ OutOfZkaps(Current[1])) => enabled.zkaps_button

\* C8: maybe_enable_actions run for a current gateway that is out of ZKAPs
\* but has folders disables the controls and leaves the displayed view and
\* the checked button as they were; run for a gateway that is not out of
\* ZKAPs it leaves the view and the checked button as they were too.
C8_ViewLeftAlone ==
    [][(/\ last_op'.op = "maybe_enable_actions"
        /\ Current # None
        /\ (magic_folders[Current[1]] # {} \/ ~OutOfZkaps(Current[1])))
          => /\ currentWidget' = currentWidget
             /\ checked' = checked
             /\ OutOfZkaps(Current[1]) => Restricted(enabled')]_vars

C8_Witness ==
    \E g \in Gateways :
        /\ Current = Some(g)
        /\ last_op.enablement
        /\ OutOfZkaps(g)
        /\ magic_folders[g] # {}
        /\ Restricted(enabled)
        /\ Active(g, "History", currentWidget, checked)

\* A step in which the combo box made gateway g current in place of
\* another item.
SelectStep(g) ==
    /\ last_op'.op = "select"
    /\ last_op'.g = g
    /\ last_op'.from # g

\* C9: selecting gateway G shows the kind of view that was on display when
\* G was last the current gateway.  on_grid_selected consults the
\* History button of the window, checked for whichever gateway was current
\* before, and keeps no view per gateway.
C9_PerGatewayView ==
    [][\A g \in Gateways :
          (SelectStep(g) /\ last_view[g] # "none")
              => currentWidget' = <<g, last_view[g]>>]_vars

\* C10: a selection in the combo box leaves the enablement computed for the
\* gateway selected: restricted controls, and the Quota view when it has no
\* folders, for a gateway out of ZKAPs; every control enabled otherwise.
\* Selecting a gateway that requires no ZKAPs right after a gateway that was
\* out of ZKAPs without folders, and so showed Quota, shows Folders.
C10_EnablementOfSelected ==
    \A g \in Gateways :
        (last_op.op = "select" /\ last_op.g = g)
            => /\ Current = Some(g)
               /\ OutOfZkaps(g) => Restricted(enabled)
               /\ ~OutOfZkaps(g) => AllEnabled(enabled)
               /\ (OutOfZkaps(g) /\ magic_folders[g] = {})
                      => Active(g, "Quota", currentWidget, checked)
               /\ \A f \in Gateways \ {g} :
                      (/\ last_op.from = f
                       /\ OutOfZkaps(f)
                       /\ magic_folders[f] = {}
                       /\ last_view[f] = "Quota"
                       /\ ~zkap_auth_required[g])
                          => Active(g, "Folders", currentWidget, checked)

C10_Witness ==
    \E a \in Gateways : \E b \in Gateways \ {a} :
        /\ gateways = <<a, b>>
        /\ last_op = [op |-> "select", g |-> a, from |-> b,
                      enablement |-> TRUE]
        /\ ~zkap_auth_required[a]
        /\ OutOfZkaps(b)
        /\ magic_folders[b] = {}
        /\ last_view[b] = "Quota"
        /\ AllEnabled(enabled)
        /\ Active(a, "Folders", currentWidget, checked)

----------------------------------------------------------------------------
(* Properties of the preference store                                      *)

\* C11: a get of a pair returns the value of the most recent set of that
\* pair in the same file, whichever instance or module function made the
\* calls and whatever was set for other pairs or in other files since.
C11_ReadAfterWrite ==
    (/\ pref_call.op = "get"
     /\ last_set[pref_call.path][pref_call.key] # "unset")
        => pref_call.outcome =
               Returned(last_set[pref_call.path][pref_call.key])

C11_Witness ==
    \E k \in Keys : \E j \in Keys \ {k} :
        /\ pref_call = [op |-> "get", path |-> OtherPath, key |-> k,
                        outcome |-> Returned("false")]
        /\ last_set[OtherPath][k] = "false"
        /\ last_set[OtherPath][j] = "true"
        /\ last_set[DefaultPath][k] = "true"

\* C12: a get of a pair that was never set in that file fails with
\* NotFound and leaves the files as they were.
C12_NotFound ==
    [][(/\ pref_call'.op = "get"
        /\ last_set[pref_call'.path][pref_call'.key] = "unset")
           => /\ pref_call'.outcome = NotFound
              /\ config_files' = config_files]_vars

C12_Witness ==
    \E k \in Keys :
        /\ pref_call = [op |-> "get", path |-> OtherPath, key |-> k,
                        outcome |-> NotFound]
        /\ last_set[OtherPath][k] = "unset"
        /\ last_set[DefaultPath][k] # "unset"
        /\ \E j \in Keys \ {k} : last_set[OtherPath][j] # "unset"

----------------------------------------------------------------------------
(* Properties of the gateway registry                                      *)

Registered == {gateways[i] : i \in DOMAIN gateways}

IsPrefix(s, t) == Len(s) <= Len(t) /\ SubSeq(t, 1, Len(s)) = s

\* C13: a step leaves the registered gateways where they are in the
\* sequence, with their panels and their signal connections; the gateways
\* it adds are appended once each and the last of them is the current
\* selection; no gateway is ever in the sequence twice.
C13_RegisterIdempotent ==
    [][/\ IsPrefix(gateways, gateways')
       /\ IsPrefix(views, views')
       /\ \A g \in Registered :
              /\ connections'[g] = connections[g]
              /\ g \in folders_views' /\ g \in folders_views
              /\ g \in history_views' /\ g \in history_views
              /\ g \in zkap_views' /\ g \in zkap_views
       /\ Registered' = Registered
              => /\ views' = views
                 /\ folders_views' = folders_views
                 /\ history_views' = history_views
                 /\ zkap_views' = zkap_views
                 /\ connections' = connections
       /\ \A i, j \in DOMAIN gateways' : gateways'[i] = gateways'[j] => i = j
       /\ gateways' # gateways
              => Current' = Some(gateways'[Len(gateways')])]_vars

\* Both gateways are registered, the second one is selected, and populate
\* has run again since (the last step ran a handler up to the enablement
\* without selecting anything).
C13_Witness ==
    \E a \in Gateways : \E b \in Gateways \ {a} :
        /\ gateways = <<a, b>>
        /\ views = <<a, b>>
        /\ connections = [g \in Gateways |-> 1]
        /\ Current = Some(b)
        /\ last_op.op = "other"
        /\ last_op.enablement

\* C19: every registered gateway has a Folders, a History and a Quota
\* panel, no other gateway has one, and there are as many folder views as
\* registered gateways, one for each.
C19_PanelsOfRegistered ==
    /\ folders_views = Registered
    /\ history_views = Registered
    /\ zkap_views = Registered
    /\ Len(views) = Len(gateways)
    /\ \A g \in Gateways :
           Cardinality({i \in DOMAIN views : views[i] = g}) =
               IF g \in Registered THEN 1 ELSE 0

C19_Witness ==
    /\ Len(gateways) = 1
    /\ Len(views) = 1
    /\ folders_views = Registered
    /\ \E g \in Gateways : g \notin Registered /\ g \notin zkap_views
    /\ last_op.op = "other"
    /\ last_op.enablement

----------------------------------------------------------------------------
(* Properties of the view selection                                        *)

\* No panel of the kind with these bindings for the current gateway, or no
\* current gateway.
NoPanel(bindings) == Current = None \/ Current[1] \notin bindings

\* The window without the record of the last handler's exception.
WindowState ==
    <<gateways, items, currentIndex, current_index, views, folders_views,
      history_views, zkap_views, currentWidget, enabled, checked,
      windowTitle, connections>>

\* C14: show_folders_view, show_history_view and show_zkap_view change
\* nothing of the window (the panel on display, the checked toggles, the
\* enablement) and raise nothing when the current gateway has no panel of
\* that kind or there is no current gateway.
C14_NoSuchViewNoOp ==
    [][/\ (NoPanel(folders_views) /\ ShowFoldersView)
              => UNCHANGED WindowState /\ last_error' = "none"
       /\ (NoPanel(history_views) /\ ShowHistoryView)
              => UNCHANGED WindowState /\ last_error' = "none"
       /\ (NoPanel(zkap_views) /\ ShowZkapView)
              => UNCHANGED WindowState /\ last_error' = "none"]_vars

\* A handler has run with no gateway selected and the window is as
\* __init__ left it.
C14_Witness ==
    /\ Current = None
    /\ last_op.op = "other"
    /\ ~last_op.enablement
    /\ currentWidget = None
    /\ checked = [folders_button |-> FALSE, zkaps_button |-> FALSE,
                  history_button |-> FALSE]
    /\ ~enabled.history_button

\* C18: once a gateway is registered, a gateway is selected, the panel on
\* display is one of its three panels, and the toggle of that panel's kind
\* is the one toggle checked.
C18_OneActiveKind ==
    gateways # <<>>
        => /\ Current # None
           /\ \E kind \in Kinds :
                  Active(Current[1], kind, currentWidget, checked)

\* After a selection in the combo box with two gateways registered the
\* History view of the selected gateway is the active one.
C18_Witness ==
    /\ Len(gateways) = 2
    /\ last_op.op = "select"
    /\ Current = Some(last_op.g)
    /\ last_op.from \notin {"", last_op.g}
    /\ Active(last_op.g, "History", currentWidget, checked)
    /\ last_view[last_op.from] = "History"

\* C20 as stated: the window title names a gateway only when more than one
\* gateway is registered; with one gateway it is the bare application name.
C20_TitleOnlyWithSeveral ==
    Len(gateways) <= 1 => windowTitle = <<APP_NAME>>

\* C20, amended: the window title names the selected gateway exactly when
\* the multiple_grids feature is enabled, with one gateway registered as
\* with several; with the feature disabled it stays the bare application
\* name.
C20_TitleWithFeature ==
    /\ ~multiple_grids_enabled => windowTitle = <<APP_NAME>>
    /\ (multiple_grids_enabled /\ gateways # <<>>)
           => Current # None /\ windowTitle = <<APP_NAME, Current[1]>>

\* The only registered gateway has been selected in the combo box and the
\* title names it.
C20_Witness ==
    /\ Len(gateways) = 1
    /\ multiple_grids_enabled
    /\ last_op.op = "select"
    /\ last_op.g = gateways[1]
    /\ windowTitle = <<APP_NAME, gateways[1]>>

----------------------------------------------------------------------------
(* Properties of the deferred display                                      *)

\* C16: the step that shows the window with a message pending opens no
\* message box: it empties the slot and schedules the display of that
\* message.  A scheduled display leaves the timers only by running, which
\* opens the message box of its message, whether or not the window is
\* visible then.
C16_DeferredDisplay ==
    [][/\ (~visible /\ visible' /\ pending_news_message # None)
              => /\ pending_news_message' = None
                 /\ timers' = Append(timers, pending_news_message[1])
                 /\ msgboxes' = msgboxes
       /\ (pending_news_message # None /\ pending_news_message' = None)
              => visible' /\ msgboxes' = msgboxes
       /\ timers' # timers
              => \/ \E m \in Messages : timers' = Append(timers, m)
                 \/ /\ timers # <<>>
                    /\ timers' = Tail(timers)
                    /\ msgboxes' =
                           [msgboxes EXCEPT ![Head(timers)] = @ + 1]]_vars

\* The display of a message that arrived while the window was hidden is
\* scheduled, no message box has been opened, and the window is hidden
\* again.
C16_Witness ==
    \E m \in Messages :
        /\ enqueued = [x \in Messages |-> IF x = m THEN 1 ELSE 0]
        /\ msgboxes = [x \in Messages |-> 0]
        /\ pending_news_message = None
        /\ timers = <<m>>
        /\ unread_messages = <<m>>
        /\ ~visible

\* C17: the messages in the pending slot and the displays scheduled and not
\* yet run are never more than one together.
C17_AtMostOneInFlight ==
    (IF pending_news_message = None THEN 0 ELSE 1) + Len(timers) <= 1

----------------------------------------------------------------------------
(* Properties of show_news_message                                         *)

\* The step displayed message m: it opened one message box, for m.
Displayed(m) == msgboxes' = [msgboxes EXCEPT ![m] = @ + 1]

\* The unread list as show_news_message found it, and the calls of
\* systray.update() made before it: a step in which the message arrived
\* has appended it and updated the indicator once.
UnreadBefore ==
    IF enqueued' # enqueued
    THEN Append(unread_messages, last_enqueued'[1])
    ELSE unread_messages

UpdatesBefore == IF enqueued' # enqueued THEN 1 ELSE 0

\* One element equal to m has gone from the list and nothing else.
RemovedOne(before, after, m) ==
    /\ Len(after) = Len(before) - 1
    /\ \A x \in Messages :
           Count(after, x) = Count(before, x) - (IF x = m THEN 1 ELSE 0)

\* The tuple is in the unread list: one copy is removed and the indicator
\* is updated.
DisplayedPresent(m) ==
    Count(UnreadBefore, m) > 0
        => /\ RemovedOne(UnreadBefore, unread_messages', m)
           /\ systray_updates' = UpdatesBefore + 1
           /\ pending_news_message' = pending_news_message

\* The tuple is not in the unread list: the list and the slot stay.
DisplayedAbsent(m) ==
    Count(UnreadBefore, m) = 0
        => /\ unread_messages' = unread_messages
           /\ pending_news_message' = pending_news_message

\* C21 as stated: show_news_message removes one matching tuple from the
\* unread list when there is one and updates the indicator; when there is
\* none it leaves the list and the slot alone and still updates the
\* indicator.
C21_IndicatorAlwaysUpdated ==
    [][\A m \in Messages :
           Displayed(m)
               => /\ DisplayedPresent(m)
                  /\ DisplayedAbsent(m)
                  /\ Count(UnreadBefore, m) = 0
                         => systray_updates' >= 1]_vars

\* C21, amended: show_news_message removes one matching tuple from the
\* unread list when there is one and updates the indicator; when there is
\* none it leaves the list and the slot alone and does not update the
\* indicator.
C21_IndicatorUpdatedOnRemoval ==
    [][\A m \in Messages :
           Displayed(m)
               => /\ DisplayedPresent(m)
                  /\ DisplayedAbsent(m)
                  /\ Count(UnreadBefore, m) = 0
                         => systray_updates' = 0]_vars

\* A message that never arrived has been displayed, with another message
\* unread and pending: the list and the slot are as they were and the
\* indicator was not updated.
C21_Witness ==
    \E m \in Messages :
        /\ msgboxes = [x \in Messages |-> IF x = m THEN 1 ELSE 0]
        /\ enqueued[m] = 0
        /\ Len(unread_messages) = 1
        /\ pending_news_message = Some(unread_messages[1])
        /\ systray_updates = 0

\* C22: a message that arrives for a gateway that is not registered
\* changes neither the unread list nor the pending slot and opens no
\* message box.
C22_UnknownGatewayNoOp ==
    [][\A g \in Gateways \ Registered :
           (enqueued' # enqueued /\ last_enqueued'[1][1] = g)
               => /\ unread_messages' = unread_messages
                  /\ pending_news_message' = pending_news_message
                  /\ msgboxes' = msgboxes]_vars

----------------------------------------------------------------------------
(* Properties of the pending slot                                          *)

\* How often message m is in the pending slot, and how many displays of it
\* are scheduled and not yet run.
InSlot(m) == IF pending_news_message = Some(m) THEN 1 ELSE 0
Scheduled(m) == Cardinality({i \in DOMAIN timers : timers[i] = m})

\* C23: while the window is visible the pending slot is empty, and every
\* arrival of a message is handed to the display at most once: the message
\* boxes opened for it, the displays scheduled for it and its place in the
\* slot are together no more than its arrivals.
C23_SlotOnlyWhileHidden ==
    /\ visible => pending_news_message = None
    /\ \A m \in Messages :
           msgboxes[m] + Scheduled(m) + InSlot(m) <= enqueued[m]

\* The window is visible with the slot empty: one message arrived while
\* the window was hidden and its display is scheduled, another arrived
\* with the window visible and its message box was opened at once.
C23_Witness ==
    /\ visible
    /\ pending_news_message = None
    /\ \E m1, m2 \in Messages :
           /\ m1 # m2
           /\ timers = <<m1>>
           /\ enqueued[m1] = 1 /\ msgboxes[m1] = 0
           /\ enqueued[m2] = 1 /\ msgboxes[m2] = 1
           /\ last_enqueued = Some(m2)

----------------------------------------------------------------------------
(* Properties of closing and quitting                                      *)

\* The step in which confirm_quit opens its question, and the step in
\* which the question is answered.
Asked == ~question_open /\ question_open'
Answered == question_open /\ ~question_open'

\* What the claim has in common with the code: the reactor is stopped only
\* by the step that answers the question with Yes; opening the question
\* and answering it No stop nothing and leave the registry, the views and
\* the notifications as they are; with a system tray, the step that hides
\* the window asks nothing and stops nothing.
QuitOnlyOnYes ==
    /\ (reactor_running /\ ~reactor_running')
           => Answered /\ quit_answer' = "Yes"
    /\ (Asked \/ (Answered /\ quit_answer' = "No"))
           => /\ reactor_running'
              /\ UNCHANGED <<WindowState, rows, newsvars, systray_visible>>
    /\ (visible /\ ~visible')
           => /\ systray_available
              /\ reactor_running'
              /\ UNCHANGED <<question_open, quit_message, quit_answer>>

\* C24, as stated: the event loop is stopped only through the answer Yes,
\* the answer No changes nothing, a close event with a system tray stops
\* nothing, and once the reactor is stopped the system tray is hidden.
C24_TrayHiddenOnQuit ==
    [][/\ QuitOnlyOnYes
       /\ ~reactor_running' => ~systray_visible']_vars

\* C24, amended: as above, but the system tray is hidden before the
\* reactor is stopped on win32 only; on any other platform it is left
\* shown.
C24_TrayHiddenOnWin32 ==
    [][/\ QuitOnlyOnYes
       /\ ~reactor_running' => (systray_visible' <=> platform # "win32")]_vars

\* The window was hidden with a system tray and an upgrade message is
\* pending; the Quit shortcut was then answered Yes on win32: the tray is
\* hidden and the reactor stopped.
C24_Witness ==
    /\ ~reactor_running
    /\ ~question_open
    /\ quit_answer = "Yes"
    /\ platform = "win32"
    /\ systray_available
    /\ ~systray_visible
    /\ ~visible
    /\ gateways # <<>>
    /\ unread_messages # <<>>

----------------------------------------------------------------------------
(* Properties of the displayed panel                                       *)

\* The gateways that have a panel of the given kind.
PanelsOf(kind) ==
    CASE kind = "Folders" -> folders_views
      [] kind = "History" -> history_views
      [] kind = "Quota" -> zkap_views

\* C25: whenever a gateway is selected, the panel on display is a panel of
\* that gateway, of one of the three kinds and registered for it; after a
\* selection that changed the gateway it is not a panel of the gateway
\* selected before.
C25_PanelOfCurrentGateway ==
    Current # None
        => /\ currentWidget # None
           /\ currentWidget[1] = Current[1]
           /\ currentWidget[2] \in Kinds
           /\ Current[1] \in PanelsOf(currentWidget[2])
           /\ (/\ last_op.op = "select"
               /\ last_op.from # ""
               /\ last_op.g \notin {"", last_op.from})
                  => currentWidget[1] # last_op.from

\* With two gateways registered, the gateway whose Quota panel was on
\* display has been left for the other one, and the panel shown now is the
\* Folders panel of the gateway selected.
C25_Witness ==
    /\ Len(gateways) = 2
    /\ last_op.op = "select"
    /\ last_op.from \notin {"", last_op.g}
    /\ Current = Some(last_op.g)
    /\ last_view[last_op.from] = "Quota"
    /\ currentWidget = <<last_op.g, "Folders">>
    /\ ~checked.history_button

====
